---- MODULE Spec2Model ----
(***************************************************************************)
(* A model of package mlock (src/mlock.go): a Buffer is a window into an   *)
(* anonymous private mapping, laid out as                                  *)
(*     frontGuard | padding | canary | data | rearGuard                    *)
(* Memory is modelled byte by byte: a mapping is a sequence of bytes with  *)
(* a set of no-access pages, and a Go slice is (mapping, offset, length).  *)
(* The operating system's calls (mmap, mprotect, munmap) may each fail.    *)
(***************************************************************************)
EXTENDS Integers, Sequences, FiniteSets, TLC

\* ---------------------------------------------------------------- constants

CanarySize == 16
GuardPages == 2
progressThresh == 10

\* Bounds of the model. PageSize stands for syscall.Getpagesize(), scaled down.
PageSize == 32
MaxBufs == 2
NumSlots == 2
MaxRead == 1
\* Go's int, scaled down: a signed two's-complement integer of IntBits bits.
IntBits == 10

pagesize == PageSize

Handles == 1..MaxBufs
Slots == 1..NumSlots

Min(a, b) == IF a < b THEN a ELSE b

\* Go's int arithmetic: results wrap to IntBits bits, division truncates
\* toward zero and the remainder has the dividend's sign.
MaxInt == 2 ^ (IntBits - 1) - 1
Wrap(x) == ((x + 2 ^ (IntBits - 1)) % 2 ^ IntBits) - 2 ^ (IntBits - 1)
Quo(a, b) == IF a >= 0 THEN a \div b ELSE -((-a) \div b)
Rem(a, b) == a - b * Quo(a, b)

\* ------------------------------------------------------------------- errors

nil == "nil"
ErrAlreadyFreed == "ErrAlreadyFreed"
ErrDataCorrupted == "ErrDataCorrupted"
ErrBufferFull == "ErrBufferFull"
ErrSeekOutOfBounds == "ErrSeekOutOfBounds"
ErrBufferTooSmall == "ErrBufferTooSmall"
ErrNoProgress == "io.ErrNoProgress"
EOF == "io.EOF"
\* The platform error a failing system call returns.
Errno(call) == "errno_" \o call

\* ------------------------------------------------------------------- state

VARIABLES
    canary,  \* the package's canary [CanarySize]byte, set by init()
    mem,     \* the process's mappings: slot (address range) -> mapping
    bufs,    \* the Buffer objects the caller holds: handle -> Buffer
    nbufs,   \* how many Buffer objects have been returned to the caller
    rf,      \* the ReadFrom call in progress, if any
    res,     \* what the last call did and returned
    halted   \* "no", or how the process ended: "panic", "segv"

vars == <<canary, mem, bufs, nbufs, rf, res, halted>>

\* ----------------------------------------------------------- memory, slices

\* A nil slice, and buf[lo:hi] of the mapping at slot s.
NilSlice == [slot |-> 0, off |-> 0, len |-> 0]
Slice(s, lo, hi) == [slot |-> s, off |-> lo, len |-> hi - lo]

Unmapped == [mapped |-> FALSE, bytes |-> <<>>, noaccess |-> {}, locked |-> FALSE]

PageOf(off) == off \div pagesize
PagesOf(v) == {PageOf(o) : o \in v.off..(v.off + v.len - 1)}

\* Every byte of slice v can be read and written without a fault.
Accessible(m, v) ==
    /\ v.slot # 0
    /\ m[v.slot].mapped
    /\ v.off + v.len <= Len(m[v.slot].bytes)
    /\ PagesOf(v) \cap m[v.slot].noaccess = {}

\* The bytes slice v shows.
Bytes(m, v) == SubSeq(m[v.slot].bytes, v.off + 1, v.off + v.len)

\* copy(dst[off:], src) on a byte sequence: how many bytes, and the result.
CopyLen(d, off, src) == Min(Len(d) - off, Len(src))
Copy(d, off, src) ==
    [j \in 1..Len(d) |->
        IF j > off /\ j <= off + CopyLen(d, off, src) THEN src[j - off] ELSE d[j]]

\* Memory m after the bytes of slice v are replaced by bs (Len(bs) = v.len).
Store(m, v, bs) ==
    [m EXCEPT ![v.slot].bytes = Copy(@, v.off, bs)]

\* The system calls, when they succeed.
Mmap(m, s, length) ==
    [m EXCEPT ![s] = [mapped |-> TRUE, bytes |-> [j \in 1..length |-> 0],
                      noaccess |-> {}, locked |-> FALSE]]
MprotectNone(m, v) == [m EXCEPT ![v.slot].noaccess = @ \cup PagesOf(v)]
Munmap(m, v) == [m EXCEPT ![v.slot] = Unmapped]

\* ------------------------------------------------------------------- Buffer

NoBuffer ==
    [buf |-> NilSlice, frontGuard |-> NilSlice, padding |-> NilSlice,
     canary |-> NilSlice, data |-> NilSlice, rearGuard |-> NilSlice,
     i |-> 0, strict |-> FALSE]

\* RequiredBytes were it to leave out the extra page for the remainder.
RequiredBytesNoExtra(bytes) ==
    LET needed == Wrap(bytes + CanarySize)
    IN  Wrap(pagesize * Wrap(Quo(needed, pagesize) + GuardPages))

RequiredBytes(bytes) ==
    LET needed == Wrap(bytes + CanarySize)
        result == Wrap(pagesize * Wrap(Quo(needed, pagesize) + GuardPages))
    IN  IF Rem(needed, pagesize) = 0 THEN result ELSE Wrap(result + pagesize)

\* A slip in the indices: the canary right after the front guard, the
\* padding between the canary and data.
LayoutCanaryFirst(s, buflen, bytes) ==
    LET ri == buflen - pagesize
        di == ri - bytes
        pi == pagesize
        ci == pi + CanarySize
    IN  [buf |-> Slice(s, 0, buflen),
         frontGuard |-> Slice(s, 0, pi),
         padding |-> Slice(s, ci, di),
         canary |-> Slice(s, pi, ci),
         data |-> Slice(s, di, ri),
         rearGuard |-> Slice(s, ri, buflen),
         i |-> 0, strict |-> FALSE]

\* The Buffer Alloc builds over the mapping of length buflen at slot s.
Layout(s, buflen, bytes) ==
    LET ri == buflen - pagesize
        di == ri - bytes
        ci == di - CanarySize
        pi == pagesize
        fi == 0
    IN  [buf |-> Slice(s, 0, buflen),
         frontGuard |-> Slice(s, fi, pi),
         padding |-> Slice(s, pi, ci),
         canary |-> Slice(s, ci, di),
         data |-> Slice(s, di, ri),
         rearGuard |-> Slice(s, ri, buflen),
         i |-> 0, strict |-> FALSE]

\* canaryCheck were it to compare only the first half of the canary.
canaryCheckHalf(m, b) ==
    IF b.buf = NilSlice THEN ErrAlreadyFreed
    ELSE IF SubSeq(Bytes(m, b.canary), 1, CanarySize \div 2)
                # SubSeq(canary, 1, CanarySize \div 2) THEN ErrDataCorrupted
    ELSE IF ~b.strict \/ b.padding.len = 0 THEN nil
    ELSE IF \E j \in 1..b.padding.len : Bytes(m, b.padding)[j] # 0
         THEN ErrDataCorrupted
    ELSE nil

\* canaryCheck were it to check the padding whether or not b.strict is set.
canaryCheckPadding(m, b) ==
    IF b.buf = NilSlice THEN ErrAlreadyFreed
    ELSE IF Bytes(m, b.canary) # canary THEN ErrDataCorrupted
    ELSE IF b.padding.len = 0 THEN nil
    ELSE IF \E j \in 1..b.padding.len : Bytes(m, b.padding)[j] # 0
         THEN ErrDataCorrupted
    ELSE nil

\* b.canaryCheck()
canaryCheck(m, b) ==
    IF b.buf = NilSlice THEN ErrAlreadyFreed
    ELSE IF Bytes(m, b.canary) # canary THEN ErrDataCorrupted
    ELSE IF ~b.strict \/ b.padding.len = 0 THEN nil
    ELSE IF \E j \in 1..b.padding.len : Bytes(m, b.padding)[j] # 0
         THEN ErrDataCorrupted
    ELSE nil

\* Zero's loop were it to stop once a whole doubling no longer fits.
RECURSIVE ZeroLoopShort(_, _)
ZeroLoopShort(d, i) ==
    IF i * 2 <= Len(d) THEN ZeroLoopShort(Copy(d, i, SubSeq(d, 1, i)), i * 2) ELSE d

\* Zero's loop: for i := 1; i < len(d); i *= 2 { copy(d[i:], d[:i]) }
RECURSIVE ZeroLoop(_, _)
ZeroLoop(d, i) ==
    IF i < Len(d) THEN ZeroLoop(Copy(d, i, SubSeq(d, 1, i)), i * 2) ELSE d

ZeroBytes(d) == ZeroLoop([d EXCEPT ![1] = 0], 1)

\* b.Zero(): writes through b.data whatever that slice points at; a write to
\* an unmapped or protected address is a fault that ends the process.
Zero(m, b) ==
    IF ~Accessible(m, b.data)
    THEN [mem |-> m, b |-> b, segv |-> TRUE]
    ELSE [mem |-> Store(m, b.data, ZeroBytes(Bytes(m, b.data))),
          b |-> [b EXCEPT !.i = 0], segv |-> FALSE]

AllZero(bs) == \A j \in 1..Len(bs) : bs[j] = 0

\* b.Free() were it to leave b.buf set after the unmap.
FreeKeepsBuf(m, b, fails) ==
    IF b.buf = NilSlice
    THEN [mem |-> m, b |-> b, err |-> ErrAlreadyFreed, calls |-> <<>>,
          segv |-> FALSE, zeroAtUnmap |-> FALSE]
    ELSE LET z == Zero(m, b) IN
         IF z.segv
         THEN [mem |-> m, b |-> b, err |-> nil, calls |-> <<"zero">>,
               segv |-> TRUE, zeroAtUnmap |-> FALSE]
         ELSE IF "munmap" \in fails
         THEN [mem |-> z.mem, b |-> z.b, err |-> Errno("munmap"),
               calls |-> <<"zero", "munmap">>, segv |-> FALSE,
               zeroAtUnmap |-> AllZero(Bytes(z.mem, z.b.data))]
         ELSE [mem |-> Munmap(z.mem, z.b.buf), b |-> z.b, err |-> nil,
               calls |-> <<"zero", "munmap">>, segv |-> FALSE,
               zeroAtUnmap |-> AllZero(Bytes(z.mem, z.b.data))]

\* b.Free(). fails: the system calls that fail if made. calls: the steps taken.
Free(m, b, fails) ==
    IF b.buf = NilSlice
    THEN [mem |-> m, b |-> b, err |-> ErrAlreadyFreed, calls |-> <<>>,
          segv |-> FALSE, zeroAtUnmap |-> FALSE]
    ELSE LET z == Zero(m, b) IN
         IF z.segv
         THEN [mem |-> m, b |-> b, err |-> nil, calls |-> <<"zero">>,
               segv |-> TRUE, zeroAtUnmap |-> FALSE]
         ELSE IF "munmap" \in fails
         THEN [mem |-> z.mem, b |-> z.b, err |-> Errno("munmap"),
               calls |-> <<"zero", "munmap">>, segv |-> FALSE,
               zeroAtUnmap |-> AllZero(Bytes(z.mem, z.b.data))]
         ELSE [mem |-> Munmap(z.mem, z.b.buf),
               b |-> [z.b EXCEPT !.buf = NilSlice], err |-> nil,
               calls |-> <<"zero", "munmap", "clear">>, segv |-> FALSE,
               zeroAtUnmap |-> AllZero(Bytes(z.mem, z.b.data))]

\* b.Write(p) were it to copy to the start of b.data and not to b.data[b.i:].
WriteAtStart(m, b, p) ==
    LET err == canaryCheck(m, b) IN
    IF err # nil
    THEN [mem |-> m, b |-> b, n |-> 0, err |-> err]
    ELSE LET d == Bytes(m, b.data)
             n == CopyLen(d, b.i, p)
         IN  [mem |-> Store(m, b.data, Copy(d, 0, SubSeq(p, 1, n))),
              b |-> [b EXCEPT !.i = @ + n],
              n |-> n,
              err |-> IF n < Len(p) THEN ErrBufferFull ELSE nil]

\* b.Write(p) were it to leave b.i where it was.
WriteNoAdvance(m, b, p) ==
    LET err == canaryCheck(m, b) IN
    IF err # nil
    THEN [mem |-> m, b |-> b, n |-> 0, err |-> err]
    ELSE LET d == Bytes(m, b.data)
             n == CopyLen(d, b.i, p)
         IN  [mem |-> Store(m, b.data, Copy(d, b.i, p)),
              b |-> b,
              n |-> n,
              err |-> IF n < Len(p) THEN ErrBufferFull ELSE nil]

\* b.Write(p) were it to advance b.i by len(p) and not by the bytes copied.
WriteOverrun(m, b, p) ==
    LET err == canaryCheck(m, b) IN
    IF err # nil
    THEN [mem |-> m, b |-> b, n |-> 0, err |-> err]
    ELSE LET d == Bytes(m, b.data)
             n == CopyLen(d, b.i, p)
         IN  [mem |-> Store(m, b.data, Copy(d, b.i, p)),
              b |-> [b EXCEPT !.i = @ + Len(p)],
              n |-> n,
              err |-> IF n < Len(p) THEN ErrBufferFull ELSE nil]

\* b.Write(p)
Write(m, b, p) ==
    LET err == canaryCheck(m, b) IN
    IF err # nil
    THEN [mem |-> m, b |-> b, n |-> 0, err |-> err]
    ELSE LET d == Bytes(m, b.data)
             n == CopyLen(d, b.i, p)
         IN  [mem |-> Store(m, b.data, Copy(d, b.i, p)),
              b |-> [b EXCEPT !.i = @ + n],
              n |-> n,
              err |-> IF n < Len(p) THEN ErrBufferFull ELSE nil]

\* b.View(): nil (the empty sequence) when the check fails.
View(m, b) ==
    IF canaryCheck(m, b) # nil THEN <<>> ELSE SubSeq(Bytes(m, b.data), 1, b.i)

\* How a deferred "if e := b.Free(); e != nil { panic(e) }" ends.
FreeHalt(f) == IF f.segv THEN "segv" ELSE IF f.err # nil THEN "panic" ELSE "no"

\* Alloc(bytes), the kernel placing the new mapping at slot s. The deferred
\* function frees b when err is set, and panics when that Free fails.
Alloc(m, bytes, fails, s) ==
    IF bytes <= 0
    THEN [mem |-> m, b |-> NoBuffer, err |-> nil, halt |-> "panic", calls |-> <<>>]
    ELSE IF "mmap" \in fails \/ RequiredBytes(bytes) <= 0   \* no such length
    THEN [mem |-> m, b |-> NoBuffer, err |-> Errno("mmap"), halt |-> "no",
          calls |-> <<"mmap">>]
    ELSE
    LET needed == RequiredBytes(bytes)
        m1 == Mmap(m, s, needed)
        b == Layout(s, needed, bytes)
        rollback(mm, e, cs) ==
            LET f == Free(mm, b, fails) IN
            [mem |-> f.mem, b |-> NoBuffer, err |-> e,
             halt |-> FreeHalt(f), calls |-> cs \o f.calls]
    IN  IF "mprotect_front" \in fails
        THEN rollback(m1, Errno("mprotect_front"), <<"mmap", "mprotect">>)
        ELSE
        LET m2 == MprotectNone(m1, b.frontGuard) IN
        IF "mprotect_rear" \in fails
        THEN rollback(m2, Errno("mprotect_rear"), <<"mmap", "mprotect", "mprotect">>)
        ELSE
        LET m3 == MprotectNone(m2, b.rearGuard) IN
        [mem |-> Store(m3, b.canary, canary), b |-> b, err |-> nil, halt |-> "no",
         calls |-> <<"mmap", "mprotect", "mprotect", "canary">>]

\* Realloc returning no Buffer.
ReallocNone(m, src, e, hlt, cs) ==
    [mem |-> m, src |-> src, r |-> NoBuffer, err |-> e, halt |-> hlt, calls |-> cs]

\* Realloc's deferred function when err is set: r.Free(), a panic if that
\* fails, and r = nil.
ReallocUndo(f, src, e, cs) ==
    ReallocNone(f.mem, src, e, FreeHalt(f), cs \o f.calls)

\* Realloc's "return r, b.Free()", f being that b.Free().
ReallocFreed(f, r, fails, cs) ==
    IF f.err # nil
    THEN ReallocUndo(Free(f.mem, r, fails), f.b, f.err, cs \o f.calls)
    ELSE [mem |-> f.mem, src |-> f.b, r |-> r, err |-> nil, halt |-> "no",
          calls |-> cs \o f.calls]

\* Realloc after its r.Write were it to return r without calling b.Free().
ReallocWrittenKeepsSource(w, b, fails, cs) ==
    IF w.err # nil
    THEN ReallocUndo(Free(w.mem, w.b, fails), b,
                     IF w.err = ErrBufferFull THEN ErrBufferTooSmall ELSE w.err, cs)
    ELSE [mem |-> w.mem, src |-> b, r |-> w.b, err |-> nil, halt |-> "no",
          calls |-> cs]

\* Realloc after w, its r.Write(b.data[:b.i]).
ReallocWritten(w, b, fails, cs) ==
    IF w.err # nil
    THEN ReallocUndo(Free(w.mem, w.b, fails), b,
                     IF w.err = ErrBufferFull THEN ErrBufferTooSmall ELSE w.err, cs)
    ELSE ReallocFreed(Free(w.mem, b, IF "munmap_src" \in fails THEN {"munmap"} ELSE {}),
                      w.b, fails, cs)

\* Realloc after a, its Alloc(size).
ReallocAllocated(a, b, fails) ==
    IF a.halt # "no" THEN ReallocNone(a.mem, b, nil, a.halt, a.calls)
    ELSE IF a.err # nil THEN ReallocNone(a.mem, b, a.err, "no", a.calls)
    ELSE ReallocWritten(Write(a.mem, a.b, SubSeq(Bytes(a.mem, b.data), 1, b.i)),
                        b, fails, a.calls \o <<"write">>)

\* b.Realloc(size), the kernel placing the new mapping at slot s.
\* "munmap_src" in fails: the unmap of b.Free() fails; "munmap": that of r.Free().
Realloc(m, b, size, fails, s) ==
    IF size <= 0 THEN ReallocNone(m, b, nil, "panic", <<>>)
    ELSE IF canaryCheck(m, b) # nil
    THEN ReallocNone(m, b, canaryCheck(m, b), "no", <<>>)
    ELSE ReallocAllocated(Alloc(m, size, fails, s), b, fails)

\* b.Seek(i) were it to set b.i without comparing i to len(b.data).
SeekUnchecked(m, b, i) ==
    IF i < 0 THEN [b |-> b, err |-> nil, halt |-> "panic"]
    ELSE IF canaryCheck(m, b) # nil
    THEN [b |-> b, err |-> canaryCheck(m, b), halt |-> "no"]
    ELSE IF i > b.data.len
    THEN [b |-> [b EXCEPT !.i = i], err |-> ErrSeekOutOfBounds, halt |-> "no"]
    ELSE [b |-> [b EXCEPT !.i = i], err |-> nil, halt |-> "no"]

\* b.Seek(i)
Seek(m, b, i) ==
    IF i < 0 THEN [b |-> b, err |-> nil, halt |-> "panic"]
    ELSE IF canaryCheck(m, b) # nil
    THEN [b |-> b, err |-> canaryCheck(m, b), halt |-> "no"]
    ELSE IF i > b.data.len THEN [b |-> b, err |-> ErrSeekOutOfBounds, halt |-> "no"]
    ELSE [b |-> [b EXCEPT !.i = i], err |-> nil, halt |-> "no"]

\* b.Strict()
Strict(b) == [b EXCEPT !.strict = TRUE]

\* One turn of ReadFrom's loop were zeros never set back to 0.
ReadFromStepNoReset(m, b, zeros, total, bs, err) ==
    LET n == Len(bs)
        z == IF n = 0 THEN zeros + 1 ELSE zeros
        d == Bytes(m, b.data)
    IN  [mem |-> Store(m, b.data, Copy(d, b.i, bs)),
         b |-> [b EXCEPT !.i = @ + n],
         zeros |-> z,
         total |-> total + n,
         done |-> ~(err = nil /\ z <= progressThresh),
         err |-> IF err = nil THEN (IF z > progressThresh THEN ErrNoProgress ELSE nil)
                 ELSE IF err = EOF THEN nil
                 ELSE err]

\* One turn of ReadFrom's loop were it to give up only after twice the
\* threshold.
ReadFromStepPatient(m, b, zeros, total, bs, err) ==
    LET n == Len(bs)
        z == IF n = 0 THEN zeros + 1 ELSE 0
        d == Bytes(m, b.data)
    IN  [mem |-> Store(m, b.data, Copy(d, b.i, bs)),
         b |-> [b EXCEPT !.i = @ + n],
         zeros |-> z,
         total |-> total + n,
         done |-> ~(err = nil /\ z <= 2 * progressThresh),
         err |-> IF err = nil
                 THEN (IF z > 2 * progressThresh THEN ErrNoProgress ELSE nil)
                 ELSE IF err = EOF THEN nil
                 ELSE err]

\* One turn of ReadFrom's loop, r.Read(b.data[b.i:]) having put the bytes bs
\* into the slice and returned (len(bs), err).
ReadFromStep(m, b, zeros, total, bs, err) ==
    LET n == Len(bs)
        z == IF n = 0 THEN zeros + 1 ELSE 0
        d == Bytes(m, b.data)
    IN  [mem |-> Store(m, b.data, Copy(d, b.i, bs)),
         b |-> [b EXCEPT !.i = @ + n],
         zeros |-> z,
         total |-> total + n,
         done |-> ~(err = nil /\ z <= progressThresh),
         err |-> IF err = nil THEN (IF z > progressThresh THEN ErrNoProgress ELSE nil)
                 ELSE IF err = EOF THEN nil
                 ELSE err]

\* ---------------------------------------------------------------- the calls

\* No ReadFrom in progress. Of a ReadFrom in progress: its receiver h, its
\* variables zeros and total, and what its reader has done so far: reads, the
\* reads made; stalls, the latest reads in a row that returned (0, nil);
\* full, the latest reads in a row made with b.i at len(b.data); from, b.i at
\* the call.
NoRead ==
    [h |-> 0, zeros |-> 0, total |-> 0, reads |-> 0, stalls |-> 0, from |-> 0,
     full |-> 0]

\* The record of a call: its name, receiver and arguments (k: an integer
\* argument, p: a byte argument, fails: the system calls that fail), and what
\* it returned (n, err, ret: the returned Buffer's handle or 0 for nil, view).
\* rd: of a ReadFrom that returned, the error of its last read and the reader's
\* stalls, full and from as in NoRead.
NoCall ==
    [op |-> "none", h |-> 0, k |-> 0, p |-> <<>>, fails |-> {}, n |-> 0,
     err |-> nil, ret |-> 0, view |-> <<>>, calls |-> <<>>, zeroAtUnmap |-> FALSE,
     rd |-> [err |-> nil, stalls |-> 0, from |-> 0, full |-> 0]]

Idle == halted = "no" /\ rf.h = 0

Created(h) == h \in 1..nbufs
Live(h) == Created(h) /\ bufs[h].buf # NilSlice

CallAlloc(bytes, fails, s) ==
    /\ Idle
    /\ nbufs < MaxBufs
    /\ ~mem[s].mapped
    /\ \E a \in {Alloc(mem, bytes, fails, s)} :
         LET ok == a.halt = "no" /\ a.err = nil
             h == nbufs + 1
         IN
           /\ mem' = a.mem
           /\ halted' = a.halt
           /\ bufs' = IF ok THEN [bufs EXCEPT ![h] = a.b] ELSE bufs
           /\ nbufs' = IF ok THEN h ELSE nbufs
           /\ res' = [NoCall EXCEPT !.op = "Alloc", !.k = bytes, !.fails = fails,
                                    !.err = a.err, !.ret = IF ok THEN h ELSE 0,
                                    !.calls = a.calls]
    /\ UNCHANGED <<canary, rf>>

CallRealloc(h, size, fails, s) ==
    /\ Idle
    /\ Created(h)
    /\ IF size <= 0 \/ canaryCheck(mem, bufs[h]) # nil
       THEN s = 1 /\ fails = {}   \* no system call is made
       ELSE nbufs < MaxBufs /\ ~mem[s].mapped
    /\ \E r \in {Realloc(mem, bufs[h], size, fails, s)} :
         LET ok == r.halt = "no" /\ r.r # NoBuffer
             new == nbufs + 1
         IN
           /\ mem' = r.mem
           /\ halted' = r.halt
           /\ bufs' = IF ok THEN [bufs EXCEPT ![h] = r.src, ![new] = r.r]
                      ELSE [bufs EXCEPT ![h] = r.src]
           /\ nbufs' = IF ok THEN new ELSE nbufs
           /\ res' = [NoCall EXCEPT !.op = "Realloc", !.h = h, !.k = size,
                                    !.fails = fails, !.err = r.err,
                                    !.ret = IF ok THEN new ELSE 0,
                                    !.calls = r.calls]
    /\ UNCHANGED <<canary, rf>>

CallRequiredBytes(bytes) ==
    /\ Idle
    /\ res' = [NoCall EXCEPT !.op = "RequiredBytes", !.k = bytes,
                             !.n = RequiredBytes(bytes)]
    /\ UNCHANGED <<canary, mem, bufs, nbufs, rf, halted>>

CallView(h) ==
    /\ Idle
    /\ Created(h)
    /\ res' = [NoCall EXCEPT !.op = "View", !.h = h, !.view = View(mem, bufs[h])]
    /\ UNCHANGED <<canary, mem, bufs, nbufs, rf, halted>>

CallSeek(h, i) ==
    /\ Idle
    /\ Created(h)
    /\ \E r \in {Seek(mem, bufs[h], i)} :
           /\ bufs' = [bufs EXCEPT ![h] = r.b]
           /\ halted' = r.halt
           /\ res' = [NoCall EXCEPT !.op = "Seek", !.h = h, !.k = i, !.err = r.err]
    /\ UNCHANGED <<canary, mem, nbufs, rf>>

CallWrite(h, p) ==
    /\ Idle
    /\ Created(h)
    /\ \E w \in {Write(mem, bufs[h], p)} :
           /\ mem' = w.mem
           /\ bufs' = [bufs EXCEPT ![h] = w.b]
           /\ res' = [NoCall EXCEPT !.op = "Write", !.h = h, !.p = p, !.n = w.n,
                                    !.err = w.err]
    /\ UNCHANGED <<canary, nbufs, rf, halted>>

\* b.ReadFrom(r) up to its loop: the check, then the loop starts.
CallReadFrom(h) ==
    /\ Idle
    /\ Created(h)
    /\ \E err \in {canaryCheck(mem, bufs[h])} :
           IF err # nil
           THEN /\ res' = [NoCall EXCEPT !.op = "ReadFrom", !.h = h, !.err = err]
                /\ rf' = rf
           ELSE /\ res' = [NoCall EXCEPT !.op = "ReadFrom", !.h = h,
                                         !.err = "running"]
                /\ rf' = [NoRead EXCEPT !.h = h, !.from = bufs[h].i]
    /\ UNCHANGED <<canary, mem, bufs, nbufs, halted>>

\* The reader's count of reads in a row that returned (0, nil), and of reads in
\* a row made with no room left, after a read that returned (len(bs), err).
Stalls(r, bs, err) == IF Len(bs) = 0 /\ err = nil THEN r.stalls + 1 ELSE 0
Full(r, b) == IF b.i = b.data.len THEN r.full + 1 ELSE 0

\* One r.Read of the running ReadFrom: the reader puts bs into b.data[b.i:]
\* and returns (len(bs), err); ReadFrom returns when its loop ends.
ReadStep(bs, err) ==
    /\ halted = "no"
    /\ rf.h # 0
    /\ Len(bs) <= bufs[rf.h].data.len - bufs[rf.h].i
    /\ \E st \in {ReadFromStep(mem, bufs[rf.h], rf.zeros, rf.total, bs, err)} :
           /\ mem' = st.mem
           /\ bufs' = [bufs EXCEPT ![rf.h] = st.b]
           /\ rf' = IF st.done THEN NoRead
                    ELSE [h |-> rf.h, zeros |-> st.zeros, total |-> st.total,
                          reads |-> rf.reads + 1, stalls |-> Stalls(rf, bs, err),
                          from |-> rf.from, full |-> Full(rf, bufs[rf.h])]
           /\ res' = IF st.done
                     THEN [NoCall EXCEPT !.op = "ReadFrom", !.h = rf.h,
                                        !.n = st.total, !.err = st.err,
                                        !.k = rf.reads + 1,
                                        !.rd = [err |-> err,
                                                stalls |-> Stalls(rf, bs, err),
                                                from |-> rf.from,
                                                full |-> Full(rf, bufs[rf.h])]]
                     ELSE res
    /\ UNCHANGED <<canary, nbufs, halted>>

CallFree(h, fails) ==
    /\ Idle
    /\ Created(h)
    /\ \E f \in {Free(mem, bufs[h], fails)} :
           /\ mem' = f.mem
           /\ bufs' = [bufs EXCEPT ![h] = f.b]
           /\ halted' = IF f.segv THEN "segv" ELSE "no"
           /\ res' = [NoCall EXCEPT !.op = "Free", !.h = h, !.fails = fails,
                                    !.err = f.err, !.calls = f.calls,
                                    !.zeroAtUnmap = f.zeroAtUnmap]
    /\ UNCHANGED <<canary, nbufs, rf>>

CallZero(h) ==
    /\ Idle
    /\ Created(h)
    /\ \E z \in {Zero(mem, bufs[h])} :
           /\ mem' = z.mem
           /\ bufs' = [bufs EXCEPT ![h] = z.b]
           /\ halted' = IF z.segv THEN "segv" ELSE "no"
           /\ res' = [NoCall EXCEPT !.op = "Zero", !.h = h]
    /\ UNCHANGED <<canary, nbufs, rf>>

CallStrict(h) ==
    /\ Idle
    /\ Created(h)
    /\ bufs' = [bufs EXCEPT ![h] = Strict(bufs[h])]
    /\ res' = [NoCall EXCEPT !.op = "Strict", !.h = h]
    /\ UNCHANGED <<canary, mem, nbufs, rf, halted>>

\* A stray write from outside the package (the tests' b.canary[5]++ and
\* b.canary[5]--, b.padding[7]++ and b.padding[7]--): byte k of the region
\* goes up or down by one. At most one byte of a region is off at a time.
Poke(m, v, k, up) ==
    [m EXCEPT ![v.slot].bytes[v.off + k + 1] = (@ + (IF up THEN 1 ELSE 255)) % 256]

PokeCanary(h, k, up) ==
    /\ Idle
    /\ Live(h)
    /\ k < bufs[h].canary.len
    /\ LET c == Bytes(mem, bufs[h].canary)
       IN  IF up THEN c = canary ELSE c[k + 1] = (canary[k + 1] + 1) % 256
    /\ mem' = Poke(mem, bufs[h].canary, k, up)
    /\ res' = [NoCall EXCEPT !.op = "PokeCanary", !.h = h, !.k = k]
    /\ UNCHANGED <<canary, bufs, nbufs, rf, halted>>

PokePadding(h, k, up) ==
    /\ Idle
    /\ Live(h)
    /\ k < bufs[h].padding.len
    /\ LET c == Bytes(mem, bufs[h].padding)
       IN  IF up THEN AllZero(c) ELSE c[k + 1] = 1
    /\ mem' = Poke(mem, bufs[h].padding, k, up)
    /\ res' = [NoCall EXCEPT !.op = "PokePadding", !.h = h, !.k = k]
    /\ UNCHANGED <<canary, bufs, nbufs, rf, halted>>

\* ------------------------------------------------------- the specifications

\* init(): the canary is 16 random bytes.
CanaryChoices == { [j \in 1..CanarySize |-> (37 * j + 33) % 256] }

Init ==
    /\ canary \in CanaryChoices
    /\ mem = [s \in Slots |-> Unmapped]
    /\ bufs = [h \in Handles |-> NoBuffer]
    /\ nbufs = 0
    /\ rf = NoRead
    /\ res = NoCall
    /\ halted = "no"

\* What the caller passes and what the system does. A failing system call is
\* named by the call ("munmap_src": the unmap of Realloc's b.Free()).
Caps == {1, 2}
AllocFails ==
    { {}, {"mmap"}, {"mlock"}, {"mprotect_front"}, {"mprotect_rear"},
      {"mprotect_rear", "munmap"} }
ReallocFails ==
    { {}, {"mmap"}, {"mprotect_rear"}, {"munmap_src"}, {"munmap_src", "munmap"} }
FreeFails == { {}, {"munmap"} }
Payloads == { <<7>>, <<7, 8>> }
Reads == { <<[j \in 1..n |-> 7], e>> : n \in 0..MaxRead, e \in {nil, EOF, "EIO"} }
\* A reader that always ends: it never returns (0, nil).
EndingReads == { r \in Reads : r[1] # <<>> \/ r[2] # nil }

\* The life-cycle runs: every call of the package on small capacities, with
\* every failing system call. The caller holds one live Buffer at a time and
\* gets a second one from Realloc only; it keeps using the Buffers it freed.
NoneLive == \A h \in Handles : ~Live(h)

Next ==
    \/ \E bytes \in Caps \cup {0}, fails \in AllocFails, s \in Slots :
            NoneLive /\ CallAlloc(bytes, fails, s)
    \/ \E h \in Handles, size \in Caps, fails \in ReallocFails, s \in Slots :
            CallRealloc(h, size, fails, s)
    \/ \E h \in Handles : CallView(h)
    \/ \E h \in Handles, i \in 0..3 : CallSeek(h, i)
    \/ \E h \in Handles, p \in Payloads : CallWrite(h, p)
    \/ \E h \in Handles : CallReadFrom(h)
    \/ \E r \in EndingReads : ReadStep(r[1], r[2])
    \/ \E h \in Handles, fails \in FreeFails : CallFree(h, fails)
    \/ \E h \in Handles : CallZero(h)
    \/ \E h \in Handles : CallStrict(h)

Spec == Init /\ [][Next]_vars

\* The layout runs: one Buffer of every capacity up to two pages and a byte.
LayoutCaps == 1..(2 * pagesize + 1)

NextLayout ==
    \/ \E bytes \in LayoutCaps, fails \in { {}, {"mprotect_rear"} }, s \in Slots :
            nbufs = 0 /\ CallAlloc(bytes, fails, s)
    \/ \E h \in Handles : CallView(h)
    \/ \E h \in Handles : CallZero(h) /\ Live(h)
    \/ \E h \in Handles, fails \in FreeFails : CallFree(h, fails)

SpecLayout == Init /\ [][NextLayout]_vars

\* The runs of one Buffer: the first Buffer's whole life, every call on it
\* before and after Free; Realloc is called on the first Buffer only.
OneCaps == {1, 2, 3}
OnePayloads == { <<>>, <<7>>, <<7, 8>>, <<8, 7, 8, 7>> }

NextOne ==
    \/ \E bytes \in OneCaps, s \in Slots : nbufs = 0 /\ CallAlloc(bytes, {}, s)
    \/ \E s \in Slots : CallRealloc(1, 2, {}, s)
    \/ \E h \in Handles : CallView(h)
    \/ \E h \in Handles, i \in 0..4 : CallSeek(h, i)
    \/ \E h \in Handles, p \in OnePayloads : CallWrite(h, p)
    \/ \E h \in Handles : CallReadFrom(h)
    \/ \E r \in EndingReads : ReadStep(r[1], r[2])
    \/ \E h \in Handles, fails \in FreeFails : CallFree(h, fails)
    \/ \E h \in Handles : CallZero(h)
    \/ \E h \in Handles : CallStrict(h)

SpecOne == Init /\ [][NextOne]_vars

\* The integrity runs: stray writes into the canary and the padding of a
\* Buffer with padding (capacity 2) and of one without (a page less the canary).
IntegrityCaps == {2, pagesize - CanarySize}
CanaryPokes == {5, CanarySize - 1}
PaddingPokes == {7}

NextIntegrity ==
    \/ \E bytes \in IntegrityCaps, s \in Slots : nbufs = 0 /\ CallAlloc(bytes, {}, s)
    \/ \E s \in Slots : CallRealloc(1, 2, {}, s)
    \/ \E h \in Handles : CallView(h)
    \/ \E h \in Handles : CallSeek(h, 0)
    \/ \E h \in Handles : CallWrite(h, <<7>>)
    \/ \E h \in Handles : CallReadFrom(h)
    \/ \E r \in EndingReads : ReadStep(r[1], r[2])
    \/ \E h \in Handles : CallFree(h, {})
    \/ \E h \in Handles : CallStrict(h)
    \/ \E h \in Handles, k \in CanaryPokes, up \in BOOLEAN : PokeCanary(h, k, up)
    \/ \E h \in Handles, k \in PaddingPokes, up \in BOOLEAN : PokePadding(h, k, up)

SpecIntegrity == Init /\ [][NextIntegrity]_vars

\* The tests' text, "Hello, world! I am secure :)", in ASCII.
text ==
    <<72, 101, 108, 108, 111, 44, 32, 119, 111, 114, 108, 100, 33, 32,
      73, 32, 97, 109, 32, 115, 101, 99, 117, 114, 101, 32, 58, 41>>

\* The runs of the tests' scenario: the text written into a Buffer one byte
\* larger than it, and into Buffers of twice and three times its length.
HelloCaps == {Len(text) + 1, 2 * Len(text), 3 * Len(text)}

NextHello ==
    \/ \E bytes \in HelloCaps, s \in Slots : nbufs = 0 /\ CallAlloc(bytes, {}, s)
    \/ \E h \in Handles : CallView(h)
    \/ \E h \in Handles, i \in {0, Len(text)} : CallSeek(h, i)
    \/ \E h \in Handles : CallWrite(h, text)
    \/ \E h \in Handles : CallZero(h) /\ Live(h)
    \/ \E h \in Handles : CallFree(h, {})

SpecHello == Init /\ [][NextHello]_vars

\* The resizing runs: the first Buffer, written to, is resized to a capacity
\* below, at and above its cursor, with every failing system call.
ReallocCaps == {1, 2, 3}

NextRealloc ==
    \/ \E bytes \in ReallocCaps, s \in Slots : nbufs = 0 /\ CallAlloc(bytes, {}, s)
    \/ \E size \in ReallocCaps, fails \in ReallocFails, s \in Slots :
            CallRealloc(1, size, fails, s)
    \/ \E h \in Handles : CallView(h)
    \/ \E h \in Handles, i \in {0, 1} : CallSeek(h, i)
    \/ \E h \in Handles, p \in Payloads : CallWrite(h, p)
    \/ \E h \in Handles : CallStrict(h)
    \/ \E h \in Handles : CallFree(h, {})

SpecRealloc == Init /\ [][NextRealloc]_vars

\* The tests' rand.Read(b.data): n bytes, none of them zero.
Fill(n) == [j \in 1..n |-> ((j - 1) % 255) + 1]

\* The zeroing runs: a Buffer of every capacity up to a page and a byte is
\* filled, whole or in part, and zeroed.
ZeroCaps == 1..(pagesize + 1)

NextZero ==
    \/ \E bytes \in ZeroCaps, s \in Slots : nbufs = 0 /\ CallAlloc(bytes, {}, s)
    \/ \E h \in Handles :
            Live(h) /\ \E n \in {1, bufs[h].data.len} : CallWrite(h, Fill(n))
    \/ \E h \in Handles : Live(h) /\ CallZero(h)
    \/ \E h \in Handles : CallView(h)
    \/ \E h \in Handles : CallStrict(h)
    \/ \E h \in Handles : CallFree(h, {})

SpecZero == Init /\ [][NextZero]_vars

\* The sizing runs: RequiredBytes of every positive int, and TestAlloc's two
\* capacities and the largest int given to Alloc.
NextRequired ==
    \/ \E bytes \in 1..MaxInt : nbufs = 0 /\ CallRequiredBytes(bytes)
    \/ \E bytes \in {pagesize - CanarySize, pagesize, MaxInt}, s \in Slots :
            nbufs = 0 /\ CallAlloc(bytes, {}, s)
    \/ \E h \in Handles : CallFree(h, {})

SpecRequired == Init /\ [][NextRequired]_vars

\* The reading runs: ReadFrom from a reader that may stall, returning (0, nil),
\* as the tests' stalledReader does, as well as deliver, end and fail.
ReadCaps == {1, 2}

ReadTurn == \E r \in Reads : ReadStep(r[1], r[2])

NextRead ==
    \/ \E bytes \in ReadCaps, s \in Slots : nbufs = 0 /\ CallAlloc(bytes, {}, s)
    \/ \E h \in Handles : CallReadFrom(h)
    \/ ReadTurn
    \/ \E h \in Handles : CallSeek(h, 0)
    \/ \E h \in Handles : CallView(h)
    \/ \E h \in Handles : CallFree(h, {})

SpecRead == Init /\ [][NextRead]_vars

\* ReadFrom's loop keeps running: the reader is called again and again.
SpecReadFair == SpecRead /\ WF_vars(ReadTurn)

\* ------------------------------------------------------------------- claims

Freed(h) == Created(h) /\ bufs[h].buf = NilSlice
GatedOps == {"Write", "Seek", "ReadFrom", "Realloc"}
BufferOps == GatedOps \cup {"View", "Free", "Zero", "Strict"}

\* C1: once Free has succeeded on a buffer, the buffer holds no backing
\* reference, and every later call on it (Write, Seek, View, ReadFrom,
\* Realloc, Zero, Strict, Free) leaves memory untouched and faults nowhere;
\* the calls that return an error return AlreadyFreed, View returns nothing.
C1_FreedBufferIsNeverTouched ==
    [][\A h \in Handles :
        (Freed(h) /\ res'.op \in BufferOps /\ res'.h = h) =>
            /\ mem' = mem
            /\ halted' = "no"
            /\ res'.op \in GatedOps \cup {"Free"} => res'.err = ErrAlreadyFreed
            /\ res'.op = "View" => res'.view = <<>>]_vars

\* C2: every buffer Alloc returned, until it is freed, has its mapping locked
\* into physical memory.
C2_LiveBuffersAreLocked ==
    \A h \in Handles : Live(h) => mem[bufs[h].buf.slot].locked

\* C3: a Free that succeeds has zeroed data, then unlocked the mapping, then
\* unmapped it, then cleared the backing reference, data being all zero at
\* the unmap; a Free whose unmap fails leaves the buffer not released.
C3_FreeZeroesUnlocksUnmapsClears ==
    /\ (res.op = "Free" /\ res.err = nil) =>
            /\ res.calls = <<"zero", "munlock", "munmap", "clear">>
            /\ res.zeroAtUnmap
    /\ (res.op = "Free" /\ res.err = Errno("munmap")) => Live(res.h)

\* C4: whichever one system call fails during Alloc (mapping, locking,
\* protecting the front guard, protecting the rear guard), Alloc returns nil
\* with that call's error and the mappings are what they were before.
C4_AllocFailureRollsBack ==
    [][\A c \in {"mmap", "mlock", "mprotect_front", "mprotect_rear"} :
        (res'.op = "Alloc" /\ res'.k > 0 /\ res'.fails = {c}) =>
            /\ res'.ret = 0
            /\ res'.err = Errno(c)
            /\ halted' = "no"
            /\ mem' = mem
            /\ bufs' = bufs]_vars

\* C5: after Alloc(capacity) succeeds the five views partition the backing
\* region in the order frontGuard, padding, canary, data, rearGuard with no
\* gap and no overlap; the guards are one page each, the canary 16 bytes, data
\* capacity bytes, padding the rest (between 0 and pageSize-1 bytes); data
\* ends where rearGuard starts; the guards are no-access and nothing else is;
\* the canary view holds the global canary; the cursor is 0, strict is off.
C5_AllocLayout ==
    (res.op = "Alloc" /\ res.ret # 0) =>
        LET b == bufs[res.ret]
            s == b.buf.slot
            len == Len(mem[s].bytes)
            views == <<b.frontGuard, b.padding, b.canary, b.data, b.rearGuard>>
        IN  /\ res.err = nil /\ halted = "no"
            /\ mem[s].mapped
            /\ b.buf = [slot |-> s, off |-> 0, len |-> len]
            /\ \A j \in 1..5 : views[j].slot = s /\ views[j].len >= 0
            /\ views[1].off = 0
            /\ \A j \in 1..4 : views[j].off + views[j].len = views[j + 1].off
            /\ views[5].off + views[5].len = len
            /\ b.frontGuard.len = pagesize /\ b.rearGuard.len = pagesize
            /\ b.canary.len = 16
            /\ b.data.len = res.k
            /\ b.padding.len = len - 2 * pagesize - 16 - res.k
            /\ b.padding.len \in 0..(pagesize - 1)
            /\ \A o \in 0..(len - 1) :
                   (o \div pagesize \in mem[s].noaccess)
                       <=> (o < b.padding.off \/ o >= b.rearGuard.off)
            /\ Bytes(mem, b.canary) = canary
            /\ b.i = 0 /\ ~b.strict

C5_Witness ==
    /\ res.op = "Alloc" /\ res.ret # 0
    /\ bufs[res.ret].padding.len = 0
    /\ bufs[res.ret].data.len = pagesize - CanarySize

Intact(h) == Bytes(mem, bufs[h].canary) = canary
PaddingDirty(h) == ~AllZero(Bytes(mem, bufs[h].padding))
Data(m, b) == Bytes(m, b.data)

\* What a call the check turns away returns and leaves alone.
TurnedAway(call, e) ==
    /\ call.op \in GatedOps => call.err = e /\ call.n = 0 /\ call.ret = 0
    /\ call.op = "View" => call.view = <<>>
    /\ mem' = mem /\ bufs' = bufs /\ nbufs' = nbufs /\ rf' = rf

\* C6: while a live buffer's canary view differs from the global canary in a
\* byte, Write, Seek, ReadFrom and Realloc on it return DataCorrupted (Write
\* and ReadFrom with a count of 0), View returns nothing, and data, cursor
\* and mappings stay as they are; with the byte restored (and the padding
\* check passing) the same calls are no longer turned away.
C6_CanaryCorruptionIsDetected ==
    [][\A h \in Handles :
        (Live(h) /\ res'.h = h /\ res'.op \in GatedOps \cup {"View"}) =>
            IF ~Intact(h)
            THEN TurnedAway(res', ErrDataCorrupted)
            ELSE (~bufs[h].strict \/ ~PaddingDirty(h)) =>
                    /\ res'.err # ErrDataCorrupted
                    /\ res'.op = "View" =>
                           res'.view = SubSeq(Data(mem, bufs[h]), 1, bufs[h].i)]_vars

C6_Witness ==
    /\ res.op \in {"Write", "ReadFrom"} /\ res.err = ErrDataCorrupted /\ res.n = 0
    /\ Live(res.h) /\ ~Intact(res.h)
    /\ Bytes(mem, bufs[res.h].canary)[CanarySize] # canary[CanarySize]

\* C7: with the canary intact and a padding byte nonzero, the gated calls
\* are turned away with DataCorrupted exactly when strict mode is on; with
\* the padding all zero they are not turned away; strict mode never goes off.
C7_StrictChecksPadding ==
    [][\A h \in Handles :
        /\ (Live(h) /\ Intact(h) /\ res'.h = h
                /\ res'.op \in GatedOps \cup {"View"}) =>
              IF bufs[h].strict /\ PaddingDirty(h)
              THEN TurnedAway(res', ErrDataCorrupted)
              ELSE /\ res'.err # ErrDataCorrupted
                   /\ res'.op = "View" =>
                          res'.view = SubSeq(Data(mem, bufs[h]), 1, bufs[h].i)
                   /\ res'.op = "Write" =>
                          res'.n = Min(Len(res'.p), bufs[h].data.len - bufs[h].i)
        /\ (Created(h) /\ bufs[h].strict) => bufs'[h].strict]_vars

C7_Witness ==
    /\ res.op = "Write" /\ res.err = ErrDataCorrupted
    /\ Live(res.h) /\ Intact(res.h)
    /\ bufs[res.h].strict /\ PaddingDirty(res.h)

C9_WriteCopiesWhatFits ==
    [][\A h \in Handles :
        (Live(h) /\ canaryCheck(mem, bufs[h]) = nil
                /\ res'.op = "Write" /\ res'.h = h) =>
            LET c == bufs[h].i
                L == bufs[h].data.len
                p == res'.p
                n == Min(Len(p), L - c)
                d == Data(mem, bufs[h])
                e == Data(mem', bufs'[h])
            IN  /\ res'.n = n
                /\ res'.err = (IF n < Len(p) THEN ErrBufferFull ELSE nil)
                /\ bufs'[h].i = c + n
                /\ \A j \in 1..L :
                       e[j] = IF j \in (c + 1)..(c + n) THEN p[j - c] ELSE d[j]
                /\ View(mem', bufs'[h]) = SubSeq(e, 1, c + n)
                /\ bufs'[h] = [bufs[h] EXCEPT !.i = c + n]]_vars

C9_Witness ==
    /\ res.op = "Write" /\ res.err = ErrBufferFull
    /\ res.n > 0 /\ res.n < Len(res.p)
    /\ bufs[res.h].i = bufs[res.h].data.len

FirstWritten(h) ==
    /\ res.op = "Write" /\ res.h = h /\ res.p = text /\ res.err = nil
    /\ Live(h) /\ View(mem, bufs[h]) = text

\* C10: on a fresh buffer the first Write of the 28-byte text succeeds and
\* View is the text. A second Write of it into a buffer of capacity 29 copies
\* the one byte that fits and returns (1, BufferFull), View being the text
\* followed by its first byte; into a buffer of capacity 56 or more it
\* succeeds, and View is the text twice over.
C10_WriteTextTwice ==
    [][\A h \in Handles :
        /\ (res.op = "Alloc" /\ res.ret = h /\ res'.op = "Write" /\ res'.h = h) =>
              /\ res'.n = Len(text) /\ res'.err = nil
              /\ View(mem', bufs'[h]) = text
        /\ (FirstWritten(h) /\ res'.op = "Write" /\ res'.h = h) =>
              LET L == bufs[h].data.len IN
              IF L >= 2 * Len(text)
              THEN /\ res'.n = Len(text) /\ res'.err = nil
                   /\ View(mem', bufs'[h]) = text \o text
              ELSE /\ res'.n = L - Len(text) /\ res'.err = ErrBufferFull
                   /\ View(mem', bufs'[h]) = SubSeq(text \o text, 1, L)]_vars

C10_Witness ==
    /\ res.op = "Write" /\ res.n = 1 /\ res.err = ErrBufferFull
    /\ bufs[res.h].data.len = 29
    /\ View(mem, bufs[res.h]) = text \o <<text[1]>>

\* C10 as stated: after Alloc(29), writing the text twice succeeds and View
\* is the text twice over.
C10_Alloc29HoldsTextTwice ==
    [][\A h \in Handles :
        (FirstWritten(h) /\ bufs[h].data.len = 29
                /\ res'.op = "Write" /\ res'.h = h) =>
            /\ res'.err = nil
            /\ View(mem', bufs'[h]) = text \o text]_vars

Mapped(m) == {s \in Slots : m[s].mapped}

\* g is a live buffer after the step.
LiveNext(g) == g \in 1..nbufs' /\ bufs'[g].buf # NilSlice

\* A Realloc on the live, intact buffer h.
ReallocOn(h) ==
    /\ Live(h) /\ canaryCheck(mem, bufs[h]) = nil
    /\ res'.op = "Realloc" /\ res'.h = h

\* What C11 promises of a Realloc on h.
ReallocMoves(h) ==
    /\ res'.err = nil /\ halted' = "no"
    /\ res'.ret # 0 /\ res'.ret # h
    /\ LiveNext(res'.ret)
    /\ bufs'[res'.ret].data.len = res'.k
    /\ bufs'[res'.ret].i = bufs[h].i
    /\ View(mem', bufs'[res'.ret]) = View(mem, bufs[h])
    /\ Freed(h)'
    /\ canaryCheck(mem', bufs'[h]) = ErrAlreadyFreed
    /\ ~mem'[bufs[h].buf.slot].mapped
    /\ Cardinality(Mapped(mem')) = Cardinality(Mapped(mem))
    /\ Mapped(mem') = (Mapped(mem) \ {bufs[h].buf.slot}) \cup {bufs'[res'.ret].buf.slot}

C12_TooSmallReturnsTheNewBuffer ==
    [][\A h \in Handles :
        (ReallocOn(h) /\ res'.k > 0 /\ res'.k < bufs[h].i /\ res'.fails = {}) =>
            /\ res'.err = ErrBufferTooSmall
            /\ res'.ret # 0
            /\ LiveNext(res'.ret)]_vars

\* C20: whenever Realloc returns, the source's live prefix at call time is
\* held by a live buffer the caller can reach (the returned buffer, or the
\* source untouched), and every mapping belongs to a buffer the caller holds.
C20_ReallocKeepsTheData ==
    [][\A h \in Handles :
        (ReallocOn(h) /\ res'.k > 0 /\ halted' = "no") =>
            /\ \/ /\ res'.ret # 0 /\ LiveNext(res'.ret)
                  /\ View(mem', bufs'[res'.ret]) = View(mem, bufs[h])
               \/ /\ Live(h)' /\ bufs'[h] = bufs[h]
                  /\ Data(mem', bufs'[h]) = Data(mem, bufs[h])
            /\ \A s \in Mapped(mem') :
                   \E g \in Handles : Live(g)' /\ bufs'[g].buf.slot = s]_vars

C14_SeekStaysInWrittenData ==
    [][\A h \in Handles :
        (Live(h) /\ canaryCheck(mem, bufs[h]) = nil
                /\ res'.op = "Seek" /\ res'.h = h /\ res'.k > bufs[h].i) =>
            /\ res'.err # nil
            /\ bufs'[h].i = bufs[h].i]_vars

\* C18: every buffer has 0 <= cursor <= len(data) in every state; len(data)
\* is the capacity asked of the Alloc or Realloc that made the buffer, and
\* never changes.
C18_CursorWithinFixedData ==
    [][\A h \in Handles :
        /\ Created(h) => /\ 0 <= bufs[h].i /\ bufs[h].i <= bufs[h].data.len
                         /\ bufs'[h].data.len = bufs[h].data.len
        /\ LiveNext(h) => 0 <= bufs'[h].i /\ bufs'[h].i <= bufs'[h].data.len
        /\ (res'.op \in {"Alloc", "Realloc"} /\ res'.ret = h /\ ~Created(h)) =>
              bufs'[h].data.len = res'.k]_vars

C18_Witness ==
    /\ res.op = "Write" /\ res.err = ErrBufferFull
    /\ nbufs = 2 /\ Freed(1)
    /\ bufs[2].i = bufs[2].data.len
    /\ bufs[2].data.len # bufs[1].data.len

\* C16: Zero() on a live buffer leaves every byte of data zero and the
\* cursor at 0, seen through the data view and through the backing region at
\* the same offsets, and leaves the canary, the padding, the strict flag, the
\* guards and every other mapping as they were.
C16_ZeroClearsDataOnly ==
    [][\A h \in Handles :
        (Live(h) /\ res'.op = "Zero" /\ res'.h = h) =>
            LET b == bufs[h]
                s == b.buf.slot
                di == b.data.off
                ri == b.rearGuard.off
            IN  /\ halted' = "no"
                /\ AllZero(Data(mem', bufs'[h]))
                /\ bufs'[h] = [b EXCEPT !.i = 0]
                /\ \A o \in 0..(b.buf.len - 1) :
                       mem'[s].bytes[o + 1] =
                           IF di <= o /\ o < ri THEN 0 ELSE mem[s].bytes[o + 1]
                /\ Bytes(mem', b.canary) = Bytes(mem, b.canary)
                /\ Bytes(mem', b.padding) = Bytes(mem, b.padding)
                /\ mem'[s].noaccess = mem[s].noaccess
                /\ mem'[s].mapped
                /\ \A t \in Slots \ {s} : mem'[t] = mem[t]]_vars

C16_Witness ==
    /\ res.op = "Zero" /\ Live(res.h)
    /\ bufs[res.h].data.len = 7
    /\ bufs[res.h].strict
    /\ AllZero(Data(mem, bufs[res.h])) /\ bufs[res.h].i = 0

\* The pages a capacity needs, in unbounded arithmetic.
PagesFor(capacity) ==
    (capacity + CanarySize + pagesize - 1) \div pagesize + GuardPages

\* C17: for every capacity > 0 whose requirement an int can hold,
\* RequiredBytes(capacity) is pageSize * (ceil((capacity+16)/pageSize) + 2):
\* a positive multiple of the page size, at least capacity + 16 +
\* 2*pageSize, and the smallest such multiple; Alloc(pageSize - 16) maps 3
\* pages and Alloc(pageSize) maps 4.
C17_RequiredBytesRoundsUp ==
    /\ (res.op = "RequiredBytes" /\ res.k > 0
            /\ pagesize * PagesFor(res.k) <= MaxInt) =>
          /\ res.n = pagesize * PagesFor(res.k)
          /\ res.n > 0 /\ res.n % pagesize = 0
          /\ res.n >= res.k + 16 + 2 * pagesize
          /\ res.n - pagesize < res.k + 16 + 2 * pagesize
    /\ (res.op = "Alloc" /\ res.k = pagesize - 16) =>
          res.ret # 0 /\ Len(mem[bufs[res.ret].buf.slot].bytes) = 3 * pagesize
    /\ (res.op = "Alloc" /\ res.k = pagesize) =>
          res.ret # 0 /\ Len(mem[bufs[res.ret].buf.slot].bytes) = 4 * pagesize

C17_Witness ==
    /\ res.op = "RequiredBytes"
    /\ res.k + CanarySize = 2 * pagesize + 1
    /\ res.n = 5 * pagesize

\* C17 as stated: for every capacity > 0.
C17_RequiredBytesOfEveryCapacity ==
    (res.op = "RequiredBytes" /\ res.k > 0) =>
        /\ res.n > 0 /\ res.n % pagesize = 0
        /\ res.n >= res.k + 16 + 2 * pagesize

\* A step in which the ReadFrom in progress returns.
ReadFromReturns == rf.h # 0 /\ rf'.h = 0

\* C15: ReadFrom returns the no-progress error exactly at the 11th read in
\* a row that returned (0, nil), never earlier, a read of at least one byte
\* starting the count again; it returns no error when the reader returns
\* end-of-input, and any other error of the reader unchanged; the total it
\* returns is what the cursor advanced by, the last read's bytes included.
C15_NoProgressAfterElevenStalls ==
    [][/\ rf.h # 0 => rf.stalls <= progressThresh
       /\ ReadFromReturns =>
            /\ res'.op = "ReadFrom" /\ res'.h = rf.h
            /\ (res'.err = ErrNoProgress) <=> (res'.rd.err = nil)
            /\ res'.rd.err = nil => res'.rd.stalls = progressThresh + 1
            /\ res'.rd.err = EOF => res'.err = nil
            /\ res'.rd.err \notin {nil, EOF} => res'.err = res'.rd.err
            /\ res'.n = bufs'[rf.h].i - res'.rd.from
            /\ res'.n = rf.total + (bufs'[rf.h].i - bufs[rf.h].i)]_vars

C15_Witness ==
    /\ res.op = "ReadFrom" /\ res.err = ErrNoProgress
    /\ res.n = 1 /\ res.k > progressThresh + 2
    /\ bufs[res.h].i < bufs[res.h].data.len

\* C19: ReadFrom terminates for every reader that returns between 0 and
\* len(slice) bytes: a ReadFrom in progress returns, after no more than 11
\* reads for each byte of room it started with and 11 more; once the cursor
\* is at len(data) it returns within 11 further reads, with the no-progress
\* error unless the reader ended or failed.
C19_ReadFromTerminates ==
    /\ [](rf.h # 0 =>
            /\ rf.full <= progressThresh
            /\ rf.reads <= (bufs[rf.h].data.len - rf.from + 1) * (progressThresh + 1))
    /\ [][ReadFromReturns =>
            /\ res'.rd.full <= progressThresh + 1
            /\ res'.k <= (bufs[rf.h].data.len - rf.from + 1) * (progressThresh + 1)
            /\ res'.rd.err = nil =>
                   res'.err = ErrNoProgress /\ res'.rd.full <= progressThresh + 1]_vars
    /\ (rf.h # 0) ~> (rf.h = 0)

C19_Witness ==
    /\ res.op = "ReadFrom" /\ res.err = ErrNoProgress
    /\ res.rd.full = progressThresh + 1
    /\ res.n > 0
    /\ bufs[res.h].i = bufs[res.h].data.len

====
